---- MODULE Spec2Model ----
(***************************************************************************)
(* Model of crates/title_bar/src/platforms/platform_linux.rs: the Linux    *)
(* window controls (minimize, maximize-or-restore, close), their global    *)
(* interaction-state store and their pointer-event handlers.               *)
(***************************************************************************)
EXTENDS Integers, Sequences, FiniteSets, TLC

\* Number of distinct close actions a caller may hand to the controls.
MaxActions == 2

Actions == 1..MaxActions
\* Option::None for WindowControl.close_action
NoAction == 0

WindowControlType == {"Minimize", "Restore", "Maximize", "Close"}
WindowControlState == {"Normal", "Hover", "Active", "Disable"}
WindowAppearance == {"Light", "VibrantLight", "Dark", "VibrantDark"}

VARIABLES
    has_global,      \* whether the ControlsState global has been created
    controls_state,  \* the ControlsState global (its default while not created)
    window,          \* the window's flags: is_maximized(), is_window_active()
    row,             \* <<the LinuxWindowControls of the last render pass>>, <<>> without one
    elements,        \* the controls of the last render pass, with what their handlers captured
    written_as,      \* the control type whose handler last wrote the maximize-or-restore slot
    last,            \* the last operation: its kind, target, inputs and effects in order
    pointer,         \* the control the pointer is over (0: none), where a specification tracks it
    panicked         \* an expect() has failed

vars == <<has_global, controls_state, window, row, elements, written_as, last, pointer,
          panicked>>

----------------------------------------------------------------------------
\* Data and pure functions

ControlsState_default ==
    [minimize_control_state |-> "Normal",
     maximize_or_restore_control_state |-> "Normal",
     close_control_state |-> "Normal"]

ControlsStates ==
    [minimize_control_state : WindowControlState,
     maximize_or_restore_control_state : WindowControlState,
     close_control_state : WindowControlState]

\* set_global(Default) in place of default_global: the global is reset on every access
default_global_reset == ControlsState_default

\* cx.default_global::<ControlsState>(): the global, created from Default when absent
default_global == IF has_global THEN controls_state ELSE ControlsState_default

\* name with Restore named as Maximize
WindowControlType_name_restore_as_maximize(t) ==
    CASE t = "Minimize" -> "minimize"
      [] t = "Restore" -> "maximize"
      [] t = "Maximize" -> "maximize"
      [] t = "Close" -> "close"

WindowControlType_name(t) ==
    CASE t = "Minimize" -> "minimize"
      [] t = "Restore" -> "restore"
      [] t = "Maximize" -> "maximize"
      [] t = "Close" -> "close"

WindowControlState_name(s) ==
    CASE s = "Normal" -> "normal"
      [] s = "Hover" -> "hover"
      [] s = "Active" -> "active"
      [] s = "Disable" -> "disable"

WindowControl_new(id, control_type, control_state) ==
    [id |-> id, control_type |-> control_type, control_state |-> control_state,
     close_action |-> NoAction]

\* new_close dropping the action it is given
WindowControl_new_close_drops_action(id, control_type, control_state, close_action) ==
    [id |-> id, control_type |-> control_type, control_state |-> control_state,
     close_action |-> NoAction]

WindowControl_new_close(id, control_type, control_state, close_action) ==
    [id |-> id, control_type |-> control_type, control_state |-> control_state,
     close_action |-> close_action]

icon_style(appearance) ==
    CASE appearance = "Light" -> "light"
      [] appearance = "VibrantLight" -> "light"
      [] appearance = "Dark" -> "dark"
      [] appearance = "VibrantDark" -> "dark"

\* icon with the backdrop only when the window is inactive and the control disabled
icon_and(self, window_active, appearance) ==
    LET style == icon_style(appearance) IN
    IF ~window_active /\ self.control_state = "Disable"
    THEN "icons/window_controls/backdrop-" \o style \o ".svg"
    ELSE "icons/window_controls/" \o WindowControlType_name(self.control_type) \o "-"
            \o WindowControlState_name(self.control_state) \o "-" \o style \o ".svg"

icon(self, window_active, appearance) ==
    LET style == icon_style(appearance) IN
    IF ~window_active \/ self.control_state = "Disable"
    THEN "icons/window_controls/backdrop-" \o style \o ".svg"
    ELSE "icons/window_controls/" \o WindowControlType_name(self.control_type) \o "-"
            \o WindowControlState_name(self.control_state) \o "-" \o style \o ".svg"

\* update_control_state leaving a disabled control's slot alone
update_control_state_guarded(states, control_type, new_state) ==
    CASE control_type = "Minimize" ->
            IF states.minimize_control_state = "Disable" THEN states
            ELSE [states EXCEPT !.minimize_control_state = new_state]
      [] control_type \in {"Restore", "Maximize"} ->
            IF states.maximize_or_restore_control_state = "Disable" THEN states
            ELSE [states EXCEPT !.maximize_or_restore_control_state = new_state]
      [] control_type = "Close" ->
            IF states.close_control_state = "Disable" THEN states
            ELSE [states EXCEPT !.close_control_state = new_state]

\* update_control_state with Restore and Maximize writing different fields
update_control_state_split(states, control_type, new_state) ==
    CASE control_type = "Minimize" ->
            [states EXCEPT !.minimize_control_state = new_state]
      [] control_type = "Restore" ->
            [states EXCEPT !.close_control_state = new_state]
      [] control_type = "Maximize" ->
            [states EXCEPT !.maximize_or_restore_control_state = new_state]
      [] control_type = "Close" ->
            [states EXCEPT !.close_control_state = new_state]

\* update_control_state with the Restore | Maximize arm writing the minimize field
update_control_state_wrong_field(states, control_type, new_state) ==
    CASE control_type = "Minimize" ->
            [states EXCEPT !.minimize_control_state = new_state]
      [] control_type \in {"Restore", "Maximize"} ->
            [states EXCEPT !.minimize_control_state = new_state]
      [] control_type = "Close" ->
            [states EXCEPT !.close_control_state = new_state]

\* the closure update_control_state of WindowControl::render, on the global's value
update_control_state(states, control_type, new_state) ==
    CASE control_type = "Minimize" ->
            [states EXCEPT !.minimize_control_state = new_state]
      [] control_type \in {"Restore", "Maximize"} ->
            [states EXCEPT !.maximize_or_restore_control_state = new_state]
      [] control_type = "Close" ->
            [states EXCEPT !.close_control_state = new_state]

\* the field of the ControlsState snapshot that a control of this type is built from
control_state_of(states, control_type) ==
    CASE control_type = "Minimize" -> states.minimize_control_state
      [] control_type \in {"Restore", "Maximize"} -> states.maximize_or_restore_control_state
      [] control_type = "Close" -> states.close_control_state

\* render with the close control built from the minimize field
LinuxWindowControls_children_wrong_field(snapshot, is_maximized, close_window_action) ==
    << WindowControl_new("minimize", "Minimize", snapshot.minimize_control_state),
       WindowControl_new("maximize-or-restore",
                         IF is_maximized THEN "Restore" ELSE "Maximize",
                         snapshot.maximize_or_restore_control_state),
       WindowControl_new_close("close", "Close", snapshot.minimize_control_state,
                               close_window_action) >>

\* the three children LinuxWindowControls::render builds from one snapshot
LinuxWindowControls_children(snapshot, is_maximized, close_window_action) ==
    << WindowControl_new("minimize", "Minimize", snapshot.minimize_control_state),
       WindowControl_new("maximize-or-restore",
                         IF is_maximized THEN "Restore" ELSE "Maximize",
                         snapshot.maximize_or_restore_control_state),
       WindowControl_new_close("close", "Close", snapshot.close_control_state,
                               close_window_action) >>

\* what the handlers of a rendered control keep of it: control_type is copied into
\* update_control_state, self (control_type, close_action) is moved into on_click
element_of(self) ==
    [id |-> self.id, control_type |-> self.control_type, close_action |-> self.close_action]

\* on_hover writing Hover on exit too
on_hover_state_sticky(hover) == IF hover THEN "Hover" ELSE "Hover"

\* on_hover leaving the control pressed on exit
on_hover_state_exit_keeps(hover) == IF hover THEN "Hover" ELSE "Active"

\* on_hover with the two states exchanged
on_hover_state_inverted(hover) == IF hover THEN "Normal" ELSE "Hover"

\* the state on_hover writes
on_hover_state(hover) == IF hover THEN "Hover" ELSE "Normal"

\* on_mouse_down disabling the control
on_mouse_down_state_disable == "Disable"

\* the state on_mouse_down writes
on_mouse_down_state == "Active"

\* on_click returning to Hover, the pointer being over the control
on_click_state_hover == "Hover"

\* on_click leaving the pressed state in place
on_click_state_active == "Active"

\* the state on_click writes
on_click_state == "Normal"

Eff(op, state, action) == [op |-> op, state |-> state, action |-> action]

\* on_click with Restore minimizing the window
on_click_command_restore_minimizes(self) ==
    CASE self.control_type = "Minimize" -> Eff("minimize_window", "-", NoAction)
      [] self.control_type = "Restore" -> Eff("minimize_window", "-", NoAction)
      [] self.control_type = "Maximize" -> Eff("zoom_window", "-", NoAction)
      [] self.control_type = "Close" ->
            IF self.close_action = NoAction
            THEN Eff("panic", "-", NoAction)
            ELSE Eff("dispatch_action", "-", self.close_action)

\* on_click with the missing close action skipped (if let Some) instead of expect()
on_click_command_if_let(self) ==
    CASE self.control_type = "Minimize" -> Eff("minimize_window", "-", NoAction)
      [] self.control_type = "Restore" -> Eff("zoom_window", "-", NoAction)
      [] self.control_type = "Maximize" -> Eff("zoom_window", "-", NoAction)
      [] self.control_type = "Close" ->
            IF self.close_action = NoAction
            THEN Eff("nothing", "-", NoAction)
            ELSE Eff("dispatch_action", "-", self.close_action)

\* on_click with the close action unwrapped for Minimize too
on_click_command_minimize_expects(self) ==
    CASE self.control_type = "Minimize" ->
            IF self.close_action = NoAction
            THEN Eff("panic", "-", NoAction)
            ELSE Eff("minimize_window", "-", NoAction)
      [] self.control_type = "Restore" -> Eff("zoom_window", "-", NoAction)
      [] self.control_type = "Maximize" -> Eff("zoom_window", "-", NoAction)
      [] self.control_type = "Close" ->
            IF self.close_action = NoAction
            THEN Eff("panic", "-", NoAction)
            ELSE Eff("dispatch_action", "-", self.close_action)

\* the match of on_click: the window command or dispatch of a control, or the failed expect
on_click_command(self) ==
    CASE self.control_type = "Minimize" -> Eff("minimize_window", "-", NoAction)
      [] self.control_type = "Restore" -> Eff("zoom_window", "-", NoAction)
      [] self.control_type = "Maximize" -> Eff("zoom_window", "-", NoAction)
      [] self.control_type = "Close" ->
            IF self.close_action = NoAction
            THEN Eff("panic", "-", NoAction)
            ELSE Eff("dispatch_action", "-", self.close_action)

\* the effects that are reached: those before the first panic, and the panic itself
reached(effects) ==
    {k \in DOMAIN effects : \A j \in 1..(k - 1) : effects[j].op # "panic"}

\* the state the reached update_control_state calls leave in the slot ("-": none reached)
written_state(effects) ==
    LET writes == {k \in reached(effects) : effects[k].op = "update_control_state"}
    IN IF writes = {} THEN "-"
       ELSE effects[CHOOSE k \in writes : \A j \in writes : j <= k].state

\* on_click unwrapping the close action before anything else
on_click_effects_expect_first(self) ==
    << on_click_command(self),
       Eff("stop_propagation", "-", NoAction),
       Eff("update_control_state", on_click_state, NoAction) >>

\* on_click performing the control's action before it resets the state
on_click_effects_command_first(self) ==
    << Eff("stop_propagation", "-", NoAction),
       on_click_command(self),
       Eff("update_control_state", on_click_state, NoAction) >>

\* the effects of on_click in program order
on_click_effects(self) ==
    << Eff("stop_propagation", "-", NoAction),
       Eff("update_control_state", on_click_state, NoAction),
       on_click_command(self) >>

----------------------------------------------------------------------------
\* State machine

NoLast ==
    [kind |-> "none", target |-> 0, hover |-> FALSE, prior |-> "-", entered_from |-> "-",
     state |-> "-", control_type |-> "-", effects |-> <<>>,
     controls |-> <<>>, icons |-> <<>>, appearance |-> "-"]

Windows == [maximized : BOOLEAN, active : BOOLEAN]

\* LinuxWindowControls::new
LinuxWindowControls_new(close_window_action) ==
    [close_window_action |-> close_window_action]

\* the control type recorded as the writer of the maximize-or-restore slot
writer_after(control_type) ==
    IF control_type \in {"Restore", "Maximize"} THEN control_type ELSE written_as

Init ==
    /\ has_global = FALSE
    /\ controls_state = ControlsState_default
    /\ window \in Windows
    /\ row = <<>>
    /\ elements = <<>>
    /\ written_as = "-"
    /\ last = NoLast
    /\ pointer = 0
    /\ panicked = FALSE

\* a ControlsState seeded with arbitrary states before the controls are first used
InitSeeded ==
    /\ has_global = TRUE
    /\ controls_state \in ControlsStates
    /\ window \in Windows
    /\ row = <<>>
    /\ elements = <<>>
    /\ written_as = "-"
    /\ last = NoLast
    /\ pointer = 0
    /\ panicked = FALSE

\* the window system changes the window's flags
WindowChanged ==
    /\ ~panicked
    /\ \E w \in Windows : w # window /\ window' = w
    /\ last' = [NoLast EXCEPT !.kind = "window_changed"]
    /\ UNCHANGED <<has_global, controls_state, row, elements, written_as, pointer, panicked>>

\* LinuxWindowControls::render, the render of its three children included
LinuxWindowControls_render(self, appearance) ==
    /\ ~panicked
    /\ LET snapshot == default_global
           children == LinuxWindowControls_children(snapshot, window.maximized,
                                                    self.close_window_action)
       IN /\ has_global' = TRUE
          /\ controls_state' = snapshot
          /\ row' = << self >>
          /\ elements' = [i \in 1..3 |-> element_of(children[i])]
          /\ last' = [NoLast EXCEPT !.kind = "render_row",
                                    !.controls = children,
                                    !.icons = [i \in 1..3 |->
                                        icon(children[i], window.active, appearance)],
                                    !.appearance = appearance]
    /\ UNCHANGED <<window, written_as, panicked>>

\* WindowControl::render of a control that is not a child of LinuxWindowControls
WindowControl_render(self, appearance) ==
    /\ ~panicked
    /\ row' = <<>>
    /\ elements' = << element_of(self) >>
    /\ last' = [NoLast EXCEPT !.kind = "render_control",
                              !.controls = << self >>,
                              !.icons = << icon(self, window.active, appearance) >>,
                              !.appearance = appearance]
    /\ UNCHANGED <<has_global, controls_state, window, written_as, panicked>>

\* on_hover of the control elements[i]
on_hover(i, hover) ==
    /\ ~panicked
    /\ i \in DOMAIN elements
    /\ LET control_type == elements[i].control_type
           states == default_global
           state == on_hover_state(hover)
       IN /\ has_global' = TRUE
          /\ controls_state' = update_control_state(states, control_type, state)
          /\ written_as' = writer_after(control_type)
          /\ last' = [NoLast EXCEPT
                !.kind = "hover", !.target = i, !.hover = hover, !.state = state,
                !.prior = control_state_of(states, control_type),
                !.entered_from =
                    IF ~hover /\ last.kind = "hover" /\ last.hover /\ last.target = i
                    THEN last.prior ELSE "-",
                !.effects = << Eff("update_control_state", state, NoAction) >>]
    /\ UNCHANGED <<window, row, elements, panicked>>

\* on_mouse_down(MouseButton::Left) of the control elements[i]
on_mouse_down(i) ==
    /\ ~panicked
    /\ i \in DOMAIN elements
    /\ LET control_type == elements[i].control_type
           states == default_global
           state == on_mouse_down_state
       IN /\ has_global' = TRUE
          /\ controls_state' = update_control_state(states, control_type, state)
          /\ written_as' = writer_after(control_type)
          /\ last' = [NoLast EXCEPT
                !.kind = "mouse_down", !.target = i, !.state = state,
                !.prior = control_state_of(states, control_type),
                !.effects = << Eff("update_control_state", state, NoAction) >>]
    /\ UNCHANGED <<window, row, elements, panicked>>

\* on_click of the control elements[i]
on_click(i) ==
    /\ ~panicked
    /\ i \in DOMAIN elements
    /\ LET self == elements[i]
           states == default_global
           effects == on_click_effects(self)
       IN /\ has_global' = TRUE
          /\ controls_state' =
                IF written_state(effects) = "-" THEN states
                ELSE update_control_state(states, self.control_type, written_state(effects))
          /\ written_as' = writer_after(self.control_type)
          /\ last' = [NoLast EXCEPT
                !.kind = "click", !.target = i, !.state = written_state(effects),
                !.prior = control_state_of(states, self.control_type),
                !.effects = [k \in 1..Cardinality(reached(effects)) |-> effects[k]]]
          /\ panicked' = (\E k \in reached(effects) : effects[k].op = "panic")
    /\ UNCHANGED <<window, row, elements>>

\* on_mouse_move of the control elements[i]
on_mouse_move(i) ==
    /\ ~panicked
    /\ i \in DOMAIN elements
    /\ last' = [NoLast EXCEPT !.kind = "mouse_move", !.target = i,
                              !.effects = << Eff("stop_propagation", "-", NoAction) >>]
    /\ UNCHANGED <<has_global, controls_state, window, row, elements, written_as, panicked>>

\* the row's on_mouse_down pressing the minimize control
row_on_mouse_down_activates ==
    /\ ~panicked
    /\ Len(row) = 1
    /\ has_global' = TRUE
    /\ controls_state' = update_control_state(default_global, "Minimize", "Active")
    /\ last' = [NoLast EXCEPT !.kind = "row_mouse_down",
                              !.effects = << Eff("stop_propagation", "-", NoAction) >>]
    /\ UNCHANGED <<window, row, elements, written_as, pointer, panicked>>

\* on_mouse_down(MouseButton::Left) of the row, reached by a press on its background
row_on_mouse_down ==
    /\ ~panicked
    /\ Len(row) = 1
    /\ last' = [NoLast EXCEPT !.kind = "row_mouse_down",
                              !.effects = << Eff("stop_propagation", "-", NoAction) >>]
    /\ UNCHANGED <<has_global, controls_state, window, row, elements, written_as, pointer,
                   panicked>>

\* In Next the pointer is not tracked: an event may go to any control.
RenderRow ==
    \E c \in Actions, a \in WindowAppearance :
        LinuxWindowControls_render(LinuxWindowControls_new(c), a) /\ UNCHANGED pointer

\* a caller renders a control it built with WindowControl::new
RenderControl ==
    \E t \in WindowControlType, s \in WindowControlState, a \in WindowAppearance :
        WindowControl_render(WindowControl_new("control", t, s), a) /\ UNCHANGED pointer

HoverEnter == \E i \in 1..3 : on_hover(i, TRUE) /\ UNCHANGED pointer
HoverExit == \E i \in 1..3 : on_hover(i, FALSE) /\ UNCHANGED pointer
MouseDown == \E i \in 1..3 : on_mouse_down(i) /\ UNCHANGED pointer
Click == \E i \in 1..3 : on_click(i) /\ UNCHANGED pointer
MouseMove == \E i \in 1..3 : on_mouse_move(i) /\ UNCHANGED pointer

Next ==
    \/ WindowChanged
    \/ RenderRow
    \/ RenderControl
    \/ HoverEnter
    \/ HoverExit
    \/ MouseDown
    \/ Click
    \/ MouseMove
    \/ row_on_mouse_down

Spec == Init /\ [][Next]_vars

\* the row of LinuxWindowControls alone, without controls built by other callers
NextRow ==
    \/ WindowChanged
    \/ RenderRow
    \/ HoverEnter
    \/ HoverExit
    \/ MouseDown
    \/ Click
    \/ MouseMove
    \/ row_on_mouse_down

SpecSeeded == InitSeeded /\ [][NextRow]_vars

\* update_control_state applied to a control type and a state
SetState(control_type, new_state) ==
    /\ ~panicked
    /\ has_global' = TRUE
    /\ controls_state' = update_control_state(default_global, control_type, new_state)
    /\ written_as' = writer_after(control_type)
    /\ last' = [NoLast EXCEPT !.kind = "set", !.control_type = control_type,
                              !.state = new_state,
                              !.prior = control_state_of(default_global, control_type)]
    /\ UNCHANGED <<window, row, elements, pointer, panicked>>

NextStore == \E t \in WindowControlType, s \in WindowControlState : SetState(t, s)

SpecStore == InitSeeded /\ [][NextStore]_vars

\* One pointer: its events go to the control under it, and it leaves a control
\* (hover-exit) before it enters another (hover-enter).
PointerEnter == \E i \in 1..3 : pointer = 0 /\ on_hover(i, TRUE) /\ pointer' = i
PointerLeave == pointer # 0 /\ on_hover(pointer, FALSE) /\ pointer' = 0
PointerDown == pointer # 0 /\ on_mouse_down(pointer) /\ UNCHANGED pointer
PointerClick == pointer # 0 /\ on_click(pointer) /\ UNCHANGED pointer
PointerMove == pointer # 0 /\ on_mouse_move(pointer) /\ UNCHANGED pointer
PointerRowDown == pointer = 0 /\ row_on_mouse_down

NextPointer ==
    \/ WindowChanged
    \/ RenderRow
    \/ PointerEnter
    \/ PointerLeave
    \/ PointerDown
    \/ PointerClick
    \/ PointerMove
    \/ PointerRowDown

SpecPointer == Init /\ [][NextPointer]_vars

----------------------------------------------------------------------------
\* Helpers of the properties

Count(seq, op) == Cardinality({k \in DOMAIN seq : seq[k].op = op})

Target == elements[last.target]

IsWriter == last.kind \in {"hover", "mouse_down", "click"}

----------------------------------------------------------------------------
\* Properties

SameSlot(t1, t2) == t1 = t2 \/ {t1, t2} = {"Restore", "Maximize"}

\* C1 as stated: after update_control_state(t, s) the state read for t is s, and the
\* state read for every other control type is what it was before.
C1_IsolationPerControlType ==
    [][last'.kind = "set" =>
        /\ control_state_of(controls_state', last'.control_type) = last'.state
        /\ \A t \in WindowControlType \ {last'.control_type} :
              control_state_of(controls_state', t) = control_state_of(default_global, t)
      ]_vars

\* C1, amended: after update_control_state(t, s) the state read for t is s; the state
\* read for a control type of another slot is unchanged; Restore and Maximize are one
\* slot, so a write to either is the state read for both.
C1_SetGetIsolation ==
    [][last'.kind = "set" =>
        \A t \in WindowControlType :
            control_state_of(controls_state', t) =
                IF SameSlot(t, last'.control_type)
                THEN last'.state
                ELSE control_state_of(default_global, t)
      ]_vars

C1_Witness ==
    /\ last.kind = "set" /\ last.control_type = "Maximize"
    /\ last.state = "Disable" /\ last.prior = "Hover"
    /\ controls_state.maximize_or_restore_control_state = "Disable"
    /\ controls_state.minimize_control_state = "Active"
    /\ controls_state.close_control_state = "Hover"

\* C2: after a click on a Minimize control the minimize slot is Normal and the click
\* has called minimize_window exactly once, and neither zoom_window nor
\* dispatch_action, whatever the slot held before.
C2_ClickMinimize ==
    (last.kind = "click" /\ Target.control_type = "Minimize") =>
        /\ controls_state.minimize_control_state = "Normal"
        /\ Count(last.effects, "minimize_window") = 1
        /\ Count(last.effects, "zoom_window") = 0
        /\ Count(last.effects, "dispatch_action") = 0
        /\ ~panicked

C2_Witness ==
    /\ last.kind = "click" /\ Target.control_type = "Minimize"
    /\ last.prior = "Disable"
    /\ controls_state.minimize_control_state = "Normal"
    /\ Count(last.effects, "minimize_window") = 1

\* C3: after a click on the second button, rendered as Restore or as Maximize, the
\* maximize-or-restore slot is Normal and the click has called zoom_window exactly
\* once and nothing else, also when the maximized flag no longer matches the type.
C3_ClickSecondButton ==
    (last.kind = "click" /\ Target.control_type \in {"Restore", "Maximize"}) =>
        /\ controls_state.maximize_or_restore_control_state = "Normal"
        /\ Count(last.effects, "zoom_window") = 1
        /\ Count(last.effects, "minimize_window") = 0
        /\ Count(last.effects, "dispatch_action") = 0
        /\ ~panicked

\* a click on a control rendered as Restore in a window that is no longer maximized
C3_Witness ==
    /\ last.kind = "click" /\ Len(row) = 1 /\ last.target = 2
    /\ Target.control_type = "Restore" /\ ~window.maximized
    /\ last.prior = "Active"
    /\ controls_state.maximize_or_restore_control_state = "Normal"
    /\ Count(last.effects, "zoom_window") = 1

\* C4: after a click on the close control of the row the close slot is Normal and the
\* click has dispatched exactly once, with the action given to LinuxWindowControls::new,
\* and has called neither minimize_window nor zoom_window.
C4_ClickRowClose ==
    (last.kind = "click" /\ Len(row) = 1 /\ last.target = 3) =>
        /\ Target.control_type = "Close"
        /\ controls_state.close_control_state = "Normal"
        /\ Count(last.effects, "dispatch_action") = 1
        /\ \A k \in DOMAIN last.effects :
              last.effects[k].op = "dispatch_action" =>
                  last.effects[k].action = row[1].close_window_action
        /\ Count(last.effects, "minimize_window") = 0
        /\ Count(last.effects, "zoom_window") = 0
        /\ ~panicked

C4_Witness ==
    /\ last.kind = "click" /\ Len(row) = 1 /\ last.target = 3
    /\ row[1].close_window_action = MaxActions
    /\ last.prior = "Active"
    /\ last.effects[3] = Eff("dispatch_action", "-", MaxActions)

\* C5: a click on a Close control built with WindowControl::new panics: the click does
\* not complete and nothing is dispatched.
C5_ClickCloseWithoutAction ==
    (last.kind = "click" /\ Len(row) = 0 /\ Target.control_type = "Close") =>
        /\ Target.close_action = NoAction
        /\ panicked
        /\ last.effects[Len(last.effects)].op = "panic"
        /\ Count(last.effects, "dispatch_action") = 0

C5_Witness ==
    /\ last.kind = "click" /\ Len(row) = 0 /\ Target.control_type = "Close"
    /\ panicked

\* C6: a hover-exit that directly follows a hover-enter on the same control leaves the
\* control's slot Normal, whatever the slot held before the hover-enter.
C6_HoverEnterExit ==
    (last.kind = "hover" /\ ~last.hover /\ last.entered_from # "-") =>
        control_state_of(controls_state, Target.control_type) = "Normal"

\* the slot held Disable before the hover-enter, and is Normal after the hover-exit
C6_Witness ==
    /\ last.kind = "hover" /\ ~last.hover /\ last.entered_from = "Disable"
    /\ last.prior = "Hover"
    /\ control_state_of(controls_state, Target.control_type) = "Normal"

IsRender == last.kind \in {"render_row", "render_control"}

StyleOf(appearance) == IF appearance \in {"Light", "VibrantLight"} THEN "light" ELSE "dark"

BackdropTable ==
    [light |-> "icons/window_controls/backdrop-light.svg",
     dark |-> "icons/window_controls/backdrop-dark.svg"]

\* C7: a control rendered in an inactive window, or with state Disable, has the icon
\* icons/window_controls/backdrop-{light|dark}.svg by its appearance alone.
C7_BackdropIcon ==
    IsRender =>
        \A i \in DOMAIN last.controls :
            (~window.active \/ last.controls[i].control_state = "Disable") =>
                last.icons[i] = BackdropTable[StyleOf(last.appearance)]

\* a disabled Close control in an active, vibrant dark window
C7_Witness ==
    /\ IsRender /\ window.active /\ last.appearance = "VibrantDark"
    /\ \E i \in DOMAIN last.controls :
          /\ last.controls[i].control_type = "Close"
          /\ last.controls[i].control_state = "Disable"
          /\ last.icons[i] = "icons/window_controls/backdrop-dark.svg"

IconTable ==
    [
     Minimize |->
        [
         Normal |-> [light |-> "icons/window_controls/minimize-normal-light.svg",
                     dark |-> "icons/window_controls/minimize-normal-dark.svg"],
         Hover |-> [light |-> "icons/window_controls/minimize-hover-light.svg",
                     dark |-> "icons/window_controls/minimize-hover-dark.svg"],
         Active |-> [light |-> "icons/window_controls/minimize-active-light.svg",
                     dark |-> "icons/window_controls/minimize-active-dark.svg"]],
     Restore |->
        [
         Normal |-> [light |-> "icons/window_controls/restore-normal-light.svg",
                     dark |-> "icons/window_controls/restore-normal-dark.svg"],
         Hover |-> [light |-> "icons/window_controls/restore-hover-light.svg",
                     dark |-> "icons/window_controls/restore-hover-dark.svg"],
         Active |-> [light |-> "icons/window_controls/restore-active-light.svg",
                     dark |-> "icons/window_controls/restore-active-dark.svg"]],
     Maximize |->
        [
         Normal |-> [light |-> "icons/window_controls/maximize-normal-light.svg",
                     dark |-> "icons/window_controls/maximize-normal-dark.svg"],
         Hover |-> [light |-> "icons/window_controls/maximize-hover-light.svg",
                     dark |-> "icons/window_controls/maximize-hover-dark.svg"],
         Active |-> [light |-> "icons/window_controls/maximize-active-light.svg",
                     dark |-> "icons/window_controls/maximize-active-dark.svg"]],
     Close |->
        [
         Normal |-> [light |-> "icons/window_controls/close-normal-light.svg",
                     dark |-> "icons/window_controls/close-normal-dark.svg"],
         Hover |-> [light |-> "icons/window_controls/close-hover-light.svg",
                     dark |-> "icons/window_controls/close-hover-dark.svg"],
         Active |-> [light |-> "icons/window_controls/close-active-light.svg",
                     dark |-> "icons/window_controls/close-active-dark.svg"]]]

\* C8: a control rendered in an active window with a state other than Disable has the
\* icon icons/window_controls/{type}-{state}-{style}.svg, and the controls of one row
\* have pairwise distinct icons.
C8_ControlIcon ==
    (IsRender /\ window.active) =>
        /\ \A i \in DOMAIN last.controls :
              last.controls[i].control_state # "Disable" =>
                  last.icons[i] =
                      IconTable[last.controls[i].control_type]
                               [last.controls[i].control_state]
                               [StyleOf(last.appearance)]
        /\ \A i, j \in DOMAIN last.controls :
              (i # j /\ last.controls[i].control_state # "Disable"
                     /\ last.controls[j].control_state # "Disable") =>
                  last.icons[i] # last.icons[j]

\* the example of the specification: Minimize, Hover, Dark
C8_Witness ==
    /\ IsRender /\ window.active /\ last.appearance = "Dark"
    /\ \E i \in DOMAIN last.controls :
          /\ last.controls[i].control_type = "Minimize"
          /\ last.controls[i].control_state = "Hover"
          /\ last.icons[i] = "icons/window_controls/minimize-hover-dark.svg"

\* C9: the second control of a row is built from the maximize-or-restore slot, whether
\* it is rendered as Restore (window maximized) or as Maximize, and a handler of a
\* control of either type writes that slot.
C9_SharedSlot ==
    /\ last.kind = "render_row" =>
          /\ last.controls[2].control_type =
                IF window.maximized THEN "Restore" ELSE "Maximize"
          /\ last.controls[2].control_state =
                controls_state.maximize_or_restore_control_state
    /\ (IsWriter /\ Target.control_type \in {"Restore", "Maximize"}) =>
          /\ controls_state.maximize_or_restore_control_state = last.state
          /\ written_as = Target.control_type

\* a state written through a Maximize control is rendered on a Restore control
C9_Witness ==
    /\ last.kind = "render_row" /\ written_as = "Maximize"
    /\ last.controls[2].control_type = "Restore"
    /\ last.controls[2].control_state = "Active"

\* the converse: written through a Restore control, rendered on a Maximize control
C9_WitnessConverse ==
    /\ last.kind = "render_row" /\ written_as = "Restore"
    /\ last.controls[2].control_type = "Maximize"
    /\ last.controls[2].control_state = "Hover"

\* C10: from the default ControlsState, every slot is Normal, Hover or Active.
C10_NeverDisable ==
    \A t \in WindowControlType :
        control_state_of(default_global, t) \in {"Normal", "Hover", "Active"}

\* all three slots away from Normal, after renders and pointer events
C10_Witness ==
    /\ last.kind = "mouse_down"
    /\ controls_state.minimize_control_state = "Hover"
    /\ controls_state.maximize_or_restore_control_state = "Active"
    /\ controls_state.close_control_state = "Active"

Commands == {"minimize_window", "zoom_window", "dispatch_action"}

\* the state of the target's slot when the k-th effect of the last handler happens
SlotAt(k) ==
    LET writes == {j \in 1..(k - 1) : last.effects[j].op = "update_control_state"}
    IN IF writes = {} THEN last.prior
       ELSE last.effects[CHOOSE j \in writes : \A i \in writes : i <= j].state

\* C11: a click first stops the event's propagation, then writes Normal to the
\* control's slot, and only then calls minimize_window, zoom_window or dispatch_action:
\* the slot is Normal when the command happens.
C11_ClickOrder ==
    last.kind = "click" =>
        /\ Len(last.effects) = 3
        /\ last.effects[1].op = "stop_propagation"
        /\ last.effects[2] = Eff("update_control_state", "Normal", NoAction)
        /\ \A k \in DOMAIN last.effects :
              last.effects[k].op \in Commands => (k = 3 /\ SlotAt(k) = "Normal")
        /\ ~panicked => last.effects[3].op \in Commands

\* a click on a pressed control: the slot was Active before the click
C11_Witness ==
    /\ last.kind = "click" /\ last.prior = "Active"
    /\ last.effects[3].op = "zoom_window"
    /\ SlotAt(3) = "Normal"

\* C12: the state a handler leaves in its control's slot is fixed by the event alone:
\* Hover on hover-enter, Normal on hover-exit, Active on primary-button-down, Normal on
\* click, from each prior state; and every event is accepted by every rendered control.
C12_AbsoluteTransitions ==
    /\ IsWriter =>
          control_state_of(controls_state, Target.control_type) =
              CASE last.kind = "hover" /\ last.hover -> "Hover"
                [] last.kind = "hover" /\ ~last.hover -> "Normal"
                [] last.kind = "mouse_down" -> "Active"
                [] last.kind = "click" -> "Normal"
    /\ ~panicked =>
          \A i \in DOMAIN elements :
              /\ ENABLED on_hover(i, TRUE)
              /\ ENABLED on_hover(i, FALSE)
              /\ ENABLED on_mouse_down(i)
              /\ ENABLED on_click(i)

\* a primary-button-down on a control whose slot held Disable
C12_Witness ==
    /\ last.kind = "mouse_down" /\ last.prior = "Disable"
    /\ control_state_of(controls_state, Target.control_type) = "Active"

\* C13: the three controls of a render pass carry the three fields of the ControlsState
\* as it was when the pass began.
C13_OneSnapshot ==
    [][last'.kind = "render_row" =>
        /\ Len(last'.controls) = 3
        /\ last'.controls[1].control_state = default_global.minimize_control_state
        /\ last'.controls[2].control_state =
              default_global.maximize_or_restore_control_state
        /\ last'.controls[3].control_state = default_global.close_control_state
      ]_vars

\* a pass after pointer events have left three different states in the store
C13_Witness ==
    /\ last.kind = "render_row"
    /\ last.controls[1].control_state = "Hover"
    /\ last.controls[2].control_state = "Active"
    /\ last.controls[3].control_state = "Normal"
    /\ controls_state.minimize_control_state = "Hover"
    /\ controls_state.maximize_or_restore_control_state = "Active"
    /\ controls_state.close_control_state = "Normal"

AllNormal ==
    [minimize_control_state |-> "Normal",
     maximize_or_restore_control_state |-> "Normal",
     close_control_state |-> "Normal"]

\* C14: a render pass leaves the ControlsState as it was, or all Normal when it
\* did not exist yet; the second control is Restore exactly when the window is
\* maximized; the render of a control built by a caller does not touch the global.
C14_RenderKeepsStore ==
    [][/\ last'.kind = "render_row" =>
            /\ has_global'
            /\ controls_state' = IF has_global THEN controls_state ELSE AllNormal
            /\ window' = window
            /\ last'.controls[2].control_type =
                  IF window.maximized THEN "Restore" ELSE "Maximize"
       /\ last'.kind = "render_control" =>
            (has_global' = has_global /\ controls_state' = controls_state)
      ]_vars

\* a pass in a maximized window, with a store that pointer events have changed
C14_Witness ==
    /\ last.kind = "render_row" /\ window.maximized
    /\ last.controls[2].control_type = "Restore"
    /\ controls_state.minimize_control_state = "Active"
    /\ controls_state.maximize_or_restore_control_state = "Hover"
    /\ controls_state.close_control_state = "Hover"

\* C15: the program has failed exactly when the last operation is a click on a Close
\* control without a close action; until then every render and every handler of every
\* rendered control can be taken.
C15_OnlyFailure ==
    /\ panicked <=>
          (/\ last.kind = "click"
           /\ Target.control_type = "Close"
           /\ Target.close_action = NoAction)
    /\ ~panicked =>
          /\ ENABLED RenderRow
          /\ ENABLED RenderControl
          /\ \A i \in DOMAIN elements :
                /\ ENABLED on_hover(i, TRUE)
                /\ ENABLED on_hover(i, FALSE)
                /\ ENABLED on_mouse_down(i)
                /\ ENABLED on_mouse_move(i)
                /\ ENABLED on_click(i)

\* a click on a Close control that has a close action completes
C15_Witness ==
    /\ last.kind = "click" /\ Target.control_type = "Close"
    /\ Target.close_action # NoAction
    /\ ~panicked
    /\ Count(last.effects, "dispatch_action") = 1

\* C16: a primary-button-down on the row's background stops the event's propagation
\* and changes no slot; one on a control writes Active to that control's slot only.
C16_RowMouseDown ==
    [][/\ last'.kind = "row_mouse_down" =>
            /\ Count(last'.effects, "stop_propagation") = 1
            /\ has_global' = has_global
            /\ controls_state' = controls_state
       /\ last'.kind = "mouse_down" =>
            \A t \in WindowControlType :
                control_state_of(controls_state', t) =
                    IF SameSlot(t, elements[last'.target].control_type)
                    THEN "Active"
                    ELSE control_state_of(default_global, t)
      ]_vars

\* a press on the background while a control is hovered
C16_Witness ==
    /\ last.kind = "row_mouse_down"
    /\ last.effects = << Eff("stop_propagation", "-", NoAction) >>
    /\ controls_state.minimize_control_state = "Hover"
    /\ controls_state.close_control_state = "Normal"

CloseWithoutAction(i) ==
    /\ i \in DOMAIN elements
    /\ elements[i].control_type = "Close"
    /\ elements[i].close_action = NoAction

\* C17: the click on a Close control without a close action fails after it has stopped
\* the event's propagation and written Normal to the close slot; the render, hover,
\* press and move of such a control do not fail.
C17_FailureAfterWrite ==
    /\ panicked =>
          /\ last.kind = "click" /\ CloseWithoutAction(last.target)
          /\ last.effects =
                << Eff("stop_propagation", "-", NoAction),
                   Eff("update_control_state", "Normal", NoAction),
                   Eff("panic", "-", NoAction) >>
          /\ has_global
          /\ controls_state.close_control_state = "Normal"
    /\ (/\ CloseWithoutAction(1)
        /\ last.kind \in {"render_control", "hover", "mouse_down", "mouse_move"}) =>
          /\ ~panicked
          /\ ENABLED on_hover(1, TRUE)
          /\ ENABLED on_hover(1, FALSE)
          /\ ENABLED on_mouse_down(1)
          /\ ENABLED on_mouse_move(1)

\* the failed click has changed the close slot from Active to Normal
C17_Witness ==
    /\ panicked /\ last.kind = "click" /\ CloseWithoutAction(last.target)
    /\ last.prior = "Active"
    /\ controls_state.close_control_state = "Normal"

\* one control type for each slot of ControlsState
SlotTypes == {"Minimize", "Maximize", "Close"}

\* C18: with one pointer, from the default state, at most one slot is away from
\* Normal, and it is the slot of the control under the pointer.
C18_OneSlotAwayFromNormal ==
    LET away == {t \in SlotTypes : control_state_of(controls_state, t) # "Normal"}
    IN /\ Cardinality(away) <= 1
       /\ \A t \in away :
             /\ pointer \in DOMAIN elements
             /\ SameSlot(elements[pointer].control_type, t)
             /\ control_state_of(controls_state, t) \in {"Hover", "Active"}

\* the pointer is over the second control and has pressed it; the others are Normal
C18_Witness ==
    /\ pointer = 2 /\ last.kind = "mouse_down"
    /\ controls_state.minimize_control_state = "Normal"
    /\ controls_state.maximize_or_restore_control_state = "Active"
    /\ controls_state.close_control_state = "Normal"

\* the command each control type's click performs
CommandOf(control_type) ==
    CASE control_type = "Minimize" -> "minimize_window"
      [] control_type = "Restore" -> "zoom_window"
      [] control_type = "Maximize" -> "zoom_window"
      [] control_type = "Close" -> "dispatch_action"

\* C19: a hover, press or click on a control whose slot holds Disable, or in an
\* inactive window, or right after a pass that gave the control the backdrop icon,
\* overwrites the slot as on any other control, and the click performs the command.
C19_HandlersUnguarded ==
    [][\A i \in 1..3 :
        (/\ last'.kind \in {"hover", "mouse_down", "click"}
         /\ last'.target = i
         /\ \/ last'.prior = "Disable"
            \/ ~window.active
            \/ (last.kind = "render_row"
                /\ last.icons[i] \in {"icons/window_controls/backdrop-light.svg",
                                      "icons/window_controls/backdrop-dark.svg"})) =>
            /\ control_state_of(controls_state', elements[i].control_type) =
                  CASE last'.kind = "hover" /\ last'.hover -> "Hover"
                    [] last'.kind = "hover" /\ ~last'.hover -> "Normal"
                    [] last'.kind = "mouse_down" -> "Active"
                    [] last'.kind = "click" -> "Normal"
            /\ last'.kind = "click" =>
                  /\ Count(last'.effects, CommandOf(elements[i].control_type)) = 1
                  /\ ~panicked'
      ]_vars

\* a click on the close control, its slot Disable, in an inactive window
C19_Witness ==
    /\ last.kind = "click" /\ last.prior = "Disable" /\ ~window.active
    /\ Target.control_type = "Close"
    /\ controls_state.close_control_state = "Normal"
    /\ Count(last.effects, "dispatch_action") = 1

\* C20: a click leaves the control's slot Normal, and a slot that is Normal leaves
\* Normal only by a hover-enter or a primary-button-down on its own control.
C20_NormalAfterClick ==
    [][/\ last'.kind = "click" =>
            control_state_of(controls_state', elements[last'.target].control_type)
                = "Normal"
       /\ \A t \in SlotTypes :
            (/\ control_state_of(default_global, t) = "Normal"
             /\ control_state_of(controls_state', t) # "Normal") =>
                /\ \/ (last'.kind = "hover" /\ last'.hover)
                   \/ last'.kind = "mouse_down"
                /\ SameSlot(elements[last'.target].control_type, t)
      ]_vars

\* the pointer is still over the clicked control and moves there: the slot is Normal
C20_Witness ==
    /\ pointer = 2 /\ last.kind = "mouse_move" /\ last.target = 2
    /\ controls_state.maximize_or_restore_control_state = "Normal"

====
